---- MODULE Spec2Model ----
(***************************************************************************)
(* Model of the flight-planner analysis scripts:                           *)
(*   analyze_airport_database.py  (distribution profiler)                  *)
(*   analyze_flight_log.py        (duration analyzer)                      *)
(*                                                                         *)
(* Three state machines share the module:                                  *)
(*   SpecPct  the percentile queries applied to a table column             *)
(*   Spec     one run of the profiler's main()                             *)
(*   SpecLog  one run of analyze_log_file()                                *)
(*                                                                         *)
(* Numbers.  Column values are whole feet (INTEGER columns), so Python's   *)
(* int() on them is the identity.  Quantiles are held in hundredths: for   *)
(* the quantiles the scripts use, SQLite's CAST(COUNT * p AS INTEGER)   *)
(* on doubles equals (count * hundredths) \div 100.  Percentages and       *)
(* cumulative probabilities are exact fractions; the text printed with     *)
(* the .4f format is held in ten-thousandths.                              *)
(***************************************************************************)
EXTENDS Integers, Sequences, FiniteSets, TLC

VARIABLES
    \* ---- percentile queries (SpecPct)
    table,        \* the column values of the table's rows, in rowid order
    call,         \* the last percentile request and its outcome
    \* ---- profiler run (Spec)
    pc,           \* position of main()
    dbState,      \* what sqlite3.connect(db_path) finds
    airports,     \* airports.Elevation, one entry per row
    runways,      \* rows of the runways table
    out,          \* the lines printed so far (one token per print group)
    rust,         \* the sampling rules printed so far by generate_rust_code
    connOpened,   \* number of sqlite3.connect() calls that returned
    connClosed,   \* number of conn.close() calls
    \* ---- duration analyzer (SpecLog)
    lpc,          \* position of analyze_log_file()
    file,         \* the lines of the log file
    pos,          \* number of lines consumed by the for loop
    durations,    \* operation -> list of durations (microseconds)
    timestamps,   \* operation -> list of timestamps
    report        \* the rows printed after the header

vars == <<table, call, pc, dbState, airports, runways, out, rust,
          connOpened, connClosed, lpc, file, pos, durations, timestamps,
          report>>

pctVars == <<table, call>>
runVars == <<pc, dbState, airports, runways, out, rust, connOpened, connClosed>>
logVars == <<lpc, file, pos, durations, timestamps, report>>

(***************************************************************************)
(* Bounds                                                                  *)
(***************************************************************************)
MaxTable == 4      \* rows of the table the percentile queries run against

ColumnValues == {0, 100, 500, 2000}

(***************************************************************************)
(* Python / SQLite values                                                  *)
(***************************************************************************)
None == [t |-> "None"]
Int2Py(v) == [t |-> "int", v |-> v]

Return(v) == [kind |-> "return", val |-> v]
Raise(e) == [kind |-> "raise", exc |-> e]

NoRow == << >>

RECURSIVE Insert(_, _)
Insert(v, s) ==
    IF s = << >> THEN <<v>>
    ELSE IF v <= Head(s) THEN <<v>> \o s
    ELSE <<Head(s)>> \o Insert(v, Tail(s))

RECURSIVE OrderBy(_)
\* ORDER BY <column> (ascending) over a list of column values
OrderBy(s) == IF s = << >> THEN << >> ELSE Insert(Head(s), OrderBy(Tail(s)))

Positive(v) == v > 0
WherePositive(s) == SelectSeq(s, Positive)

\* Offset rounding to the nearest row instead of truncating
OffsetRounded(count, p) == (count * p + 50) \div 100

\* CAST(COUNT * ? AS INTEGER) with ? = p/100
Offset(count, p) == (count * p) \div 100

\* ORDER BY col LIMIT 1 OFFSET CAST(COUNT * ? AS INTEGER), then fetchone()
PercentileRow(matching, p) ==
    LET sorted == OrderBy(matching)
        k == Offset(Len(matching), p)
    IN IF k < Len(sorted) THEN <<sorted[k + 1]>> ELSE NoRow

\* get_percentile raising on an empty result instead of returning None
get_percentile_raising(rows, p) ==
    LET result == PercentileRow(rows, p)
    IN IF result # NoRow THEN Return(Int2Py(result[1])) ELSE Raise("EmptyDataset")

\* get_percentile(cursor, table, column, percentile)
get_percentile(rows, p) ==
    LET result == PercentileRow(rows, p)
    IN IF result # NoRow THEN Return(Int2Py(result[1])) ELSE Return(None)

\* the inline "WHERE col > 0" percentile query followed by fetchone()[0]
filtered_percentile(rows, p) ==
    LET result == PercentileRow(WherePositive(rows), p)
    IN IF result # NoRow THEN Return(Int2Py(result[1])) ELSE Raise("TypeError")

\* the quantiles the scripts ask for (hundredths), and 0
Quantiles == {0, 10, 25, 50, 60, 75, 85, 90, 95, 99}


(***************************************************************************)
(* SpecPct: the percentile queries applied to a table column               *)
(***************************************************************************)
RECURSIVE SeqsUpTo(_, _)
\* all sequences over S of length at most n
SeqsUpTo(S, n) ==
    IF n = 0 THEN {<< >>}
    ELSE LET shorter == SeqsUpTo(S, n - 1)
         IN shorter \cup {Append(s, v) : s \in {t \in shorter : Len(t) = n - 1}, v \in S}

NoRust ==
    [elevation |-> << >>, runway_count |-> << >>, length |-> << >>,
     width |-> << >>, surface |-> << >>]

NoCall == [fn |-> "none", p |-> 0, outcome |-> Return(None)]

InitIdleRun ==
    /\ pc = "idle" /\ dbState = "ok" /\ airports = << >> /\ runways = << >>
    /\ out = << >> /\ rust = NoRust /\ connOpened = 0 /\ connClosed = 0

InitIdleLog ==
    /\ lpc = "idle" /\ file = << >> /\ pos = 0
    /\ durations = << >> /\ timestamps = << >> /\ report = << >>

InitPct ==
    /\ table \in SeqsUpTo(ColumnValues, MaxTable)
    /\ call = NoCall
    /\ InitIdleRun
    /\ InitIdleLog

\* val = get_percentile(cursor, 'airports', 'Elevation', p)
CallGetPercentile ==
    /\ \E p \in Quantiles :
          call' = [fn |-> "get_percentile", p |-> p, outcome |-> get_percentile(table, p)]
    /\ UNCHANGED <<table, runVars, logVars>>

\* cursor.execute("... WHERE Length > 0 ...", (p,)); val = cursor.fetchone()[0]
CallFilteredPercentile ==
    /\ \E p \in Quantiles :
          call' = [fn |-> "filtered", p |-> p, outcome |-> filtered_percentile(table, p)]
    /\ UNCHANGED <<table, runVars, logVars>>

NextPct == CallGetPercentile \/ CallFilteredPercentile

SpecPct == InitPct /\ [][NextPct]_vars

\* the rows the last request ran over
Matching == IF call.fn = "filtered" THEN WherePositive(table) ELSE table

CountBelow(s, v) == Cardinality({i \in 1..Len(s) : s[i] < v})
CountAtMost(s, v) == Cardinality({i \in 1..Len(s) : s[i] <= v})


(***************************************************************************)
(* Claims about the percentile queries (checked under SpecPct)             *)
(***************************************************************************)
AnsweredCall == call.fn # "none" /\ Matching # << >>

\* C1: over a non-empty set of matching rows and a quantile p in [0,1), the
\* request returns the value at zero-based index floor(p * count) of the
\* matching values sorted ascending: a value present among the matching rows,
\* the minimum for p = 0, and no larger than the result for any larger p.
C1_NearestRank ==
    AnsweredCall =>
        /\ call.outcome.kind = "return"
        /\ call.outcome.val.t = "int"
        /\ LET m == Matching
               n == Len(m)
               v == call.outcome.val.v
               Again(q) == IF call.fn = "filtered" THEN filtered_percentile(table, q)
                           ELSE get_percentile(table, q)
           IN /\ \E i \in 1..n : m[i] = v
              /\ \E k \in 0..(n - 1) :
                    /\ 100 * k <= call.p * n
                    /\ call.p * n < 100 * (k + 1)
                    /\ CountBelow(m, v) <= k
                    /\ k < CountAtMost(m, v)
              /\ (call.p = 0 => \A i \in 1..n : v <= m[i])
              /\ \A q \in Quantiles :
                    q >= call.p => /\ Again(q).kind = "return"
                                   /\ Again(q).val.t = "int"
                                   /\ v <= Again(q).val.v

\* the scenario of the specification: P50 of [0, 100, 500, 2000] is 500
C1_Witness ==
    /\ call.fn = "get_percentile"
    /\ call.p = 50
    /\ OrderBy(table) = <<0, 100, 500, 2000>>
    /\ call.outcome = Return(Int2Py(500))

EmptyCall == call.fn # "none" /\ Matching = << >>

Str(x) == [t |-> "str", v |-> x]

\* Python truthiness of a Surface value: None and '' are falsy
Truthy(x) == x.t = "str" /\ x.v # ""

\* str.format of a Surface value inside an f-string
PyFormat(x) == IF x.t = "None" THEN "None" ELSE x.v

Column(rows, name) == [i \in 1..Len(rows) |-> rows[i][name]]

RECURSIVE SetToSortedSeq(_)
\* the members of a set of integers, ascending
SetToSortedSeq(S) ==
    IF S = {} THEN << >>
    ELSE LET lo == CHOOSE x \in S : \A y \in S : x <= y
         IN <<lo>> \o SetToSortedSeq(S \ {lo})

\* SELECT AirportID, COUNT AS runway_count FROM runways GROUP BY AirportID
RunwaysPerAirport(rw) ==
    LET ids == {rw[i].AirportID : i \in 1..Len(rw)}
    IN [a \in ids |-> Cardinality({i \in 1..Len(rw) : rw[i].AirportID = a})]

\* SELECT runway_count, COUNT * 100.0 / (SELECT COUNT(DISTINCT AirportID) ...)
\* ... GROUP BY runway_count ORDER BY runway_count
\* a percentage is the fraction 100 * num / den
RunwayDistQuery(rw) ==
    LET per == RunwaysPerAirport(rw)
        counts == SetToSortedSeq({per[a] : a \in DOMAIN per})
    IN [i \in 1..Len(counts) |->
           [key |-> counts[i],
            num |-> Cardinality({a \in DOMAIN per : per[a] = counts[i]}),
            den |-> Cardinality(DOMAIN per)]]

Orderings(S) ==
    {f \in [1..Cardinality(S) -> S] : \A x \in S : \E i \in DOMAIN f : f[i] = x}

\* the first n entries of a sequence
Limit(s, n) == IF Len(s) <= n THEN s ELSE SubSeq(s, 1, n)

SurfaceLimit == 5

\* SELECT Surface, COUNT * 100.0 / (SELECT COUNT FROM runways) FROM runways
\* GROUP BY Surface ORDER BY COUNT DESC LIMIT 5
\* The order of groups with equal counts is not fixed by the query: every
\* order the engine may produce is a member.
SurfaceQuery(rw) ==
    LET keys == {rw[i].Surface : i \in 1..Len(rw)}
        Cnt(k) == Cardinality({i \in 1..Len(rw) : rw[i].Surface = k})
        orders == {f \in Orderings(keys) :
                      \A i, j \in DOMAIN f : i < j => Cnt(f[i]) >= Cnt(f[j])}
    IN {Limit([i \in DOMAIN f |-> [key |-> f[i], num |-> Cnt(f[i]), den |-> Len(rw)]],
              SurfaceLimit) : f \in orders}

(***************************************************************************)
(* Printed numbers                                                         *)
(***************************************************************************)
\* int(x) of a column value (whole feet)
PyInt(x) == x

\* f"{num/den:.4f}" in ten-thousandths (round half to even)
Format4(num, den) ==
    LET q == (num * 10000) \div den
        r == (num * 10000) % den
    IN IF 2 * r > den THEN q + 1
       ELSE IF 2 * r = den THEN q + (q % 2)
       ELSE q


(***************************************************************************)
(* The sampling rules printed by generate_rust_code                        *)
(*                                                                         *)
(* A rule is the list of branches of the printed if / else-if / else       *)
(* chain.  thr is the number the uniform draw is compared with             *)
(* (hundredths in numeric rules, ten-thousandths in categorical rules);    *)
(* the else branch has no comparison and carries the draw's upper limit.   *)
(* A numeric branch draws from lo..hi; qlo and qhi are the quantiles       *)
(* (hundredths) of the percentiles printed as lo and hi, 0 for the fixed   *)
(* floor and 100 for the fixed ceiling.                                    *)
(***************************************************************************)
ElevationFloor == -210
ElevationCeiling == 14422
LengthFloor == 80
LengthCeiling == 21119
WidthFloor == 9

Band(kind, thr, lo, hi, qlo, qhi) ==
    [kind |-> kind, thr |-> thr, lo |-> lo, hi |-> hi, qlo |-> qlo, qhi |-> qhi]

\* lines 221-233
ElevationRule(elev) ==
    LET P(q) == PyInt(get_percentile(elev, q).val.v)
    IN << Band("if", 25, ElevationFloor, P(25), 0, 25),
          Band("if", 50, P(25), P(50), 25, 50),
          Band("if", 75, P(50), P(75), 50, 75),
          Band("if", 90, P(75), P(90), 75, 90),
          Band("if", 95, P(90), P(95), 90, 95),
          Band("else", 100, P(95), ElevationCeiling, 95, 100) >>

\* the length rule with its third band starting at P25 instead of P50
LengthRuleSlip(rw) ==
    LET P(q) == PyInt(filtered_percentile(Column(rw, "Length"), q).val.v)
    IN << Band("if", 25, LengthFloor, P(25), 0, 25),
          Band("if", 50, P(25), P(50), 25, 50),
          Band("if", 75, P(25), P(75), 50, 75),
          Band("if", 90, P(75), P(90), 75, 90),
          Band("else", 100, P(90), LengthCeiling, 90, 100) >>

\* lines 279-289
LengthRule(rw) ==
    LET P(q) == PyInt(filtered_percentile(Column(rw, "Length"), q).val.v)
    IN << Band("if", 25, LengthFloor, P(25), 0, 25),
          Band("if", 50, P(25), P(50), 25, 50),
          Band("if", 75, P(50), P(75), 50, 75),
          Band("if", 90, P(75), P(90), 75, 90),
          Band("else", 100, P(90), LengthCeiling, 90, 100) >>

\* lines 306-314
WidthRule(rw) ==
    LET P(q) == PyInt(filtered_percentile(Column(rw, "Width"), q).val.v)
    IN << Band("if", 25, WidthFloor, P(25), 0, 25),
          Band("if", 50, P(25), P(50), 25, 50),
          Band("if", 75, P(50), P(75), 50, 75),
          Band("else", 100, P(75), P(90), 75, 90) >>

\* the running sum replaced by the current percentage alone
SumNumLast(dist, i) == IF i = 0 THEN 0 ELSE dist[i].num

RECURSIVE SumNum(_, _)
\* the sum of the first i percentages' numerators
SumNum(dist, i) == IF i = 0 THEN 0 ELSE SumNum(dist, i - 1) + dist[i].num

\* cumulative += pct / 100.0 ; "... < {cumulative:.4f}" ; the label line
CumulativeBranches(dist, labels) ==
    [i \in 1..Len(dist) |->
        [kind |-> "if",
         thr |-> Format4(SumNum(dist, i), dist[i].den),
         label |-> labels[i]]]

ElseBranch(label) == [kind |-> "else", thr |-> 10000, label |-> label]

\* lines 251-262
RunwayCountRule(runway_dist) ==
    CumulativeBranches(runway_dist, [i \in 1..Len(runway_dist) |-> runway_dist[i].key])
        \o <<ElseBranch(runway_dist[Len(runway_dist)].key)>>

\* surface_display = surface if surface else "UNK"
SurfaceDisplay(surface) == IF Truthy(surface) THEN PyFormat(surface) ELSE "UNK"

\* lines 329-341
SurfaceRule(surfaces) ==
    CumulativeBranches(surfaces, [i \in 1..Len(surfaces) |-> SurfaceDisplay(surfaces[i].key)])
        \o <<ElseBranch(PyFormat(surfaces[1].key))>>



(***************************************************************************)
(* The three stages of a run.  A stage is the list of its print groups in  *)
(* program order; ok tells whether the statements leading to the group,    *)
(* and the formatting of the group itself, complete without raising.       *)
(***************************************************************************)
Tok(line, arg) == [line |-> line, arg |-> arg]
Step(line, arg, ok, rule) == [tok |-> Tok(line, arg), ok |-> ok, rule |-> rule]

\* the number of print groups reached before the first statement that raises
Passed(steps) ==
    LET bad == {i \in 1..Len(steps) : ~steps[i].ok}
    IN IF bad = {} THEN Len(steps)
       ELSE (CHOOSE i \in bad : \A j \in bad : i <= j) - 1

Printed(steps) == [i \in 1..Passed(steps) |-> steps[i].tok]

\* a table exists in the file that was opened
HasSchema(db) == db = "ok"

\* percentiles = [0.10, 0.25, 0.50, 0.75, 0.90, 0.95, 0.99]
ReportLadder == <<10, 25, 50, 75, 90, 95, 99>>

\* print(f"... {val:>8.0f} ft") raises TypeError when val is None
Formats(outcome) == outcome.kind = "return" /\ outcome.val # None

\* lines 33-77
AirportsSteps(db, elev) ==
    << Step("banner", 0, TRUE, ""),
       Step("total_airports", 0, HasSchema(db), ""),
       Step("elevation_header", 0, TRUE, ""),
       Step("elevation_min", 0, elev # << >>, ""),
       Step("elevation_mean", 0, TRUE, "") >>
    \o [i \in 1..Len(ReportLadder) |->
           Step("elevation_P", ReportLadder[i],
                Formats(get_percentile(elev, ReportLadder[i])), "")]
    \o << Step("elevation_max", 0, TRUE, ""),
          Step("geographic_header", 0, TRUE, ""),
          Step("latitude", 0, elev # << >>, ""),
          Step("longitude", 0, TRUE, "") >>

\* the runway steps with the summary of an empty selection left unprinted
\* instead of raising
RunwaysStepsLenient(db, rw) ==
    << Step("total_runways", 0, HasSchema(db), ""),
       Step("runways_per_airport_header", 0, TRUE, ""),
       Step("average_runways", 0, TRUE, ""),
       Step("runway_count_table", 0, TRUE, ""),
       Step("length_header", 0, TRUE, ""),
       Step("width_header", 0, TRUE, ""),
       Step("surface_header", 0, TRUE, ""),
       Step("surface_table", 0, TRUE, "") >>

\* lines 88-200
RunwaysSteps(db, rw) ==
    << Step("total_runways", 0, HasSchema(db), ""),
       Step("runways_per_airport_header", 0, TRUE, ""),
       Step("average_runways", 0, rw # << >>, ""),
       Step("runway_count_table", 0, TRUE, ""),
       Step("length_header", 0, TRUE, ""),
       Step("length_min", 0, WherePositive(Column(rw, "Length")) # << >>, ""),
       Step("length_mean", 0, TRUE, "") >>
    \o [i \in 1..Len(ReportLadder) |->
           Step("length_P", ReportLadder[i],
                Formats(filtered_percentile(Column(rw, "Length"), ReportLadder[i])), "")]
    \o << Step("length_max", 0, TRUE, ""),
          Step("width_header", 0, TRUE, ""),
          Step("width_min", 0, WherePositive(Column(rw, "Width")) # << >>, ""),
          Step("width_mean", 0, TRUE, "") >>
    \o [i \in 1..Len(ReportLadder) |->
           Step("width_P", ReportLadder[i],
                Formats(filtered_percentile(Column(rw, "Width"), ReportLadder[i])), "")]
    \o << Step("width_max", 0, TRUE, ""),
          Step("surface_header", 0, TRUE, ""),
          Step("surface_table", 0, TRUE, "") >>

\* lines 210-341; surfaces is the result of the surface query
RustSteps(db, elev, rw, surfaces) ==
    << Step("rust_header", 0, TRUE, ""),
       Step("elevation_rule_open", 0, HasSchema(db), ""),
       Step("elevation_rule", 0,
            \A q \in {25, 50, 75, 90, 95} : Formats(get_percentile(elev, q)),
            "elevation"),
       Step("runway_rule_open", 0, TRUE, ""),
       Step("runway_rule", 0, RunwayDistQuery(rw) # << >>, "runway_count"),
       Step("length_rule_open", 0, TRUE, ""),
       Step("length_rule", 0,
            \A q \in {10, 25, 50, 75, 90, 95} :
                filtered_percentile(Column(rw, "Length"), q).kind = "return",
            "length"),
       Step("width_rule_open", 0, TRUE, ""),
       Step("width_rule", 0,
            \A q \in {10, 25, 50, 75, 90} :
                filtered_percentile(Column(rw, "Width"), q).kind = "return",
            "width"),
       Step("surface_rule_open", 0, TRUE, ""),
       Step("surface_rule", 0, surfaces # << >>, "surface") >>

\* the rules whose print groups were completed
RustPrinted(steps, elev, rw, surfaces) ==
    LET done == {steps[i].rule : i \in 1..Passed(steps)}
    IN [elevation |-> IF "elevation" \in done THEN ElevationRule(elev) ELSE << >>,
        runway_count |-> IF "runway_count" \in done
                         THEN RunwayCountRule(RunwayDistQuery(rw)) ELSE << >>,
        length |-> IF "length" \in done THEN LengthRule(rw) ELSE << >>,
        width |-> IF "width" \in done THEN WidthRule(rw) ELSE << >>,
        surface |-> IF "surface" \in done THEN SurfaceRule(surfaces) ELSE << >>]


(***************************************************************************)
(* Spec: one run of main()                                                 *)
(***************************************************************************)
MaxAirports == 2    \* rows of the airports table
MaxRunways == 2     \* rows of the runways table

Elevations == {0, 2000}
AirportIDs == {1, 2}
Lengths == {0, 3000}
Widths == {0, 60}
Surfaces == {None, Str("ASP")}

RunwayRows ==
    [AirportID : AirportIDs, Length : Lengths, Width : Widths, Surface : Surfaces]

Runway(a, l, w, sfc) == [AirportID |-> a, Length |-> l, Width |-> w, Surface |-> sfc]

\* four airports with 1, 1, 2 and 3 runways; six surface types
ScenarioRunways ==
    << Runway(1, 1000, 30, Str("ASP")),
       Runway(2, 2000, 40, Str("GRS")),
       Runway(3, 3000, 50, Str("ASP")),
       Runway(3, 4000, 60, Str("CON")),
       Runway(4, 5000, 75, Str("WAT")),
       Runway(4, 6000, 100, Str("TRF")),
       Runway(4, 7000, 150, Str("")) >>

RunwayTables == SeqsUpTo(RunwayRows, MaxRunways) \cup {ScenarioRunways}

Init ==
    /\ pc = "start"
    /\ dbState \in {"ok", "noschema", "unopenable"}
    /\ IF dbState = "ok"
       THEN /\ airports \in SeqsUpTo(Elevations, MaxAirports)
            /\ runways \in RunwayTables
       ELSE /\ airports = << >>
            /\ runways = << >>
    /\ out = << >>
    /\ rust = NoRust
    /\ connOpened = 0
    /\ connClosed = 0
    /\ table = << >>
    /\ call = NoCall
    /\ InitIdleLog

\* lines 348-364: the path given on the command line is taken as it is;
\* without one the two default locations are tried
Main ==
    /\ pc = "start"
    /\ \E argGiven, homeExists, cwdExists \in BOOLEAN :
          IF argGiven \/ homeExists \/ cwdExists
          THEN /\ out' = Append(out, Tok("analyzing", 0))
               /\ pc' = "analyze_airports"
          ELSE /\ out' = out \o <<Tok("error", 0), Tok("usage", 0)>>
               /\ pc' = "exit1"
    /\ UNCHANGED <<dbState, airports, runways, rust, connOpened, connClosed,
                   pctVars, logVars>>

\* where main() is after a stage: an exception leaves main() uncaught
AfterStage(steps, next) == IF Passed(steps) = Len(steps) THEN next ELSE "failed"

\* a stage that never reaches a conn.close()
ClosesNever(steps) == 0

\* the number of conn.close() calls a stage makes: one, as its last
\* statement, reached only when nothing before it raised
Closes(steps) == IF Passed(steps) = Len(steps) THEN 1 ELSE 0

\* conn = sqlite3.connect(db_path) ... conn.close(), with no try/finally
RunStage(steps, next) ==
    IF dbState = "unopenable"
    THEN /\ pc' = "failed"
         /\ UNCHANGED <<out, connOpened, connClosed>>
    ELSE /\ connOpened' = connOpened + 1
         /\ out' = out \o Printed(steps)
         /\ connClosed' = connClosed + Closes(steps)
         /\ pc' = AfterStage(steps, next)

AnalyzeAirports ==
    /\ pc = "analyze_airports"
    /\ RunStage(AirportsSteps(dbState, airports), "analyze_runways")
    /\ UNCHANGED <<dbState, airports, runways, rust, pctVars, logVars>>

AnalyzeRunways ==
    /\ pc = "analyze_runways"
    /\ RunStage(RunwaysSteps(dbState, runways), "generate_rust_code")
    /\ UNCHANGED <<dbState, airports, runways, rust, pctVars, logVars>>

GenerateRustCode ==
    /\ pc = "generate_rust_code"
    /\ \E surfaces \in SurfaceQuery(runways) :
          LET steps == RustSteps(dbState, airports, runways, surfaces)
          IN /\ RunStage(steps, "complete")
             /\ rust' = IF dbState = "unopenable" THEN rust
                        ELSE RustPrinted(steps, airports, runways, surfaces)
    /\ UNCHANGED <<dbState, airports, runways, pctVars, logVars>>

\* lines 370-372
Complete ==
    /\ pc = "complete"
    /\ out' = Append(out, Tok("analysis_complete", 0))
    /\ pc' = "done"
    /\ UNCHANGED <<dbState, airports, runways, rust, connOpened, connClosed,
                   pctVars, logVars>>

Next == Main \/ AnalyzeAirports \/ AnalyzeRunways \/ GenerateRustCode \/ Complete

Spec == Init /\ [][Next]_vars


(***************************************************************************)
(* Claims about the sampling rules (checked under Spec)                    *)
(***************************************************************************)
SetMax(S) == CHOOSE x \in S : \A y \in S : y <= x

\* the share of uniform draws in [0, top) that select branch i of a rule:
\* those below its threshold and not below any earlier threshold
DrawShare(rule, i, top) ==
    LET floor == SetMax({0} \cup {rule[j].thr : j \in 1..(i - 1)})
        ceil == IF rule[i].thr < top THEN rule[i].thr ELSE top
    IN IF ceil > floor THEN ceil - floor ELSE 0

RECURSIVE TotalShare(_, _, _)
TotalShare(rule, n, top) ==
    IF n = 0 THEN 0 ELSE TotalShare(rule, n - 1, top) + DrawShare(rule, n, top)

NumericRules == {r \in {rust.elevation, rust.length, rust.width} : r # << >>}

\* C2: in every printed numeric rule each band starts at or above the end of
\* the band before it, and the branches' draw shares, the else branch
\* included, add up to 1.
C2_ContiguousAndTotal ==
    \A r \in NumericRules :
        /\ \A i \in 2..Len(r) : r[i].lo >= r[i - 1].hi
        /\ r[Len(r)].kind = "else"
        /\ TotalShare(r, Len(r), 100) = 100

C2_Witness ==
    /\ pc = "done"
    /\ runways = ScenarioRunways
    /\ rust.length # << >>
    /\ rust.length[2].lo < rust.length[3].lo
    /\ rust.width # << >>
    /\ rust.elevation # << >>

\* C3 (as stated): every band of every printed numeric rule is drawn with a
\* share equal to the width of the quantile interval its bounds span, the
\* first band starting at quantile 0 and the last ending at quantile 1.
C3_ShareIsQuantileWidth ==
    \A r \in NumericRules :
        /\ \A i \in 1..Len(r) : DrawShare(r, i, 100) = r[i].qhi - r[i].qlo
        /\ r[1].qlo = 0
        /\ r[Len(r)].qhi = 100

IfThresholds(rule) ==
    LET ifs == SelectSeq(rule, LAMBDA b : b.kind = "if")
    IN [i \in 1..Len(ifs) |-> ifs[i].thr]

NonDecreasing(t) == \A i \in 2..Len(t) : t[i - 1] <= t[i]

DistinctSurfaces == {runways[i].Surface : i \in 1..Len(runways)}

PerAirportCounts == RunwaysPerAirport(runways)

\* C4: the printed cumulative probabilities of a categorical rule never
\* decrease in print order; when no category was cut off the last one is
\* 1.0000; per-airport runway counts 1, 1, 2, 3 print 0.5000, 0.7500, 1.0000
\* for the counts 1, 2, 3.
C4_CumulativeThresholds ==
    /\ NonDecreasing(IfThresholds(rust.runway_count))
    /\ NonDecreasing(IfThresholds(rust.surface))
    /\ rust.runway_count # << >> =>
          LET t == IfThresholds(rust.runway_count) IN t[Len(t)] = 10000
    /\ (rust.surface # << >> /\ Cardinality(DistinctSurfaces) <= SurfaceLimit) =>
          LET t == IfThresholds(rust.surface) IN t[Len(t)] = 10000
    /\ (/\ rust.runway_count # << >>
        /\ Cardinality(DOMAIN PerAirportCounts) = 4
        /\ \E f \in Orderings(DOMAIN PerAirportCounts) :
              [i \in 1..4 |-> PerAirportCounts[f[i]]] = <<1, 1, 2, 3>>)
       => /\ IfThresholds(rust.runway_count) = <<5000, 7500, 10000>>
          /\ [i \in 1..3 |-> rust.runway_count[i].label] = <<1, 2, 3>>

C4_Witness ==
    /\ pc = "done"
    /\ runways = ScenarioRunways
    /\ IfThresholds(rust.runway_count) = <<5000, 7500, 10000>>
    /\ Len(rust.surface) = SurfaceLimit + 1

\* C8 (as stated): every label of the printed surface rule, in the branches
\* and in the final fallback, is a non-null Surface value of the runways
\* table or the placeholder "UNK".
C8_NoRawNullLabel ==
    rust.surface # << >> =>
        \A i \in 1..Len(rust.surface) :
            rust.surface[i].label \in
                {x.v : x \in {y \in DistinctSurfaces : y.t = "str"}} \cup {"UNK"}


(***************************************************************************)
(* Claims about a run's output and connections (checked under Spec)        *)
(***************************************************************************)
Lines(o) == {o[i].line : i \in 1..Len(o)}

\* progress and usage messages of main(), which are no part of the report
MessageLines == {"analyzing", "error", "usage"}

RustLines ==
    {"rust_header", "elevation_rule_open", "elevation_rule", "runway_rule_open",
     "runway_rule", "length_rule_open", "length_rule", "width_rule_open",
     "width_rule", "surface_rule_open", "surface_rule"}

RunEndedInError == pc \in {"failed", "exit1"}

\* C6 (as stated): a run that ends in an error has printed no part of the
\* report.
C6_NoPartialReport ==
    RunEndedInError => Lines(out) \subseteq MessageLines

\* C6 (amended): a run that ends in an error has printed at most a prefix of
\* the statistical summaries: none of the sampling rules and not the
\* completion trailer; a run that finds no dataset file prints no part of
\* the report.
C6_ErrorBeforeRules ==
    /\ RunEndedInError =>
          /\ rust = NoRust
          /\ Lines(out) \cap RustLines = {}
          /\ "analysis_complete" \notin Lines(out)
    /\ pc = "exit1" => Lines(out) \subseteq MessageLines

C6_Witness ==
    /\ pc = "failed"
    /\ "elevation_max" \in Lines(out)
    /\ "total_runways" \in Lines(out)
    /\ "length_min" \notin Lines(out)

RunEnded == pc \in {"done", "failed", "exit1"}

Digit == [c \in {"0", "1", "2", "3", "5"} |->
             CASE c = "0" -> 0 [] c = "1" -> 1 [] c = "2" -> 2 [] c = "3" -> 3 [] c = "5" -> 5]

\* [\d.]
NumChars == DOMAIN Digit \cup {"."}

RECURSIVE Strip(_)
\* str.strip() for blanks
Strip(s) ==
    IF s = << >> THEN s
    ELSE IF Head(s) = " " THEN Strip(Tail(s))
    ELSE IF s[Len(s)] = " " THEN Strip(SubSeq(s, 1, Len(s) - 1))
    ELSE s

StartsWith(s, prefix) ==
    Len(s) >= Len(prefix) /\ SubSeq(s, 1, Len(prefix)) = prefix

Drop(s, n) == SubSeq(s, n + 1, Len(s))

RECURSIVE Replace(_, _, _)
\* str.replace(old, new)
Replace(s, old, new) ==
    IF s = << >> THEN s
    ELSE IF StartsWith(s, old) THEN new \o Replace(Drop(s, Len(old)), old, new)
    ELSE <<Head(s)>> \o Replace(Tail(s), old, new)

\* the length of the longest prefix of s made of characters of Chars
PrefixLen(s, Chars) ==
    LET stop == {i \in 1..Len(s) : s[i] \notin Chars}
    IN IF stop = {} THEN Len(s)
       ELSE (CHOOSE i \in stop : \A j \in stop : i <= j) - 1

\* the alternatives of (ns|µs|us|ms|s|m) in the order the pattern tries them
UnitTexts ==
    << <<"n", "s">>, <<"µ", "s">>, <<"u", "s">>, <<"m", "s">>, <<"s">>, <<"m">> >>
UnitNames == <<"ns", "µs", "us", "ms", "s", "m">>

\* DURATION_PATTERN.match(text): no match, or groups 1 and 2 ("" for an
\* absent unit)
DurationMatch(text) ==
    LET n == PrefixLen(text, NumChars)
        afterNum == Drop(text, n)
        rest == Drop(afterNum, PrefixLen(afterNum, {" "}))
        hits == {i \in 1..Len(UnitTexts) : StartsWith(rest, UnitTexts[i])}
    IN IF n = 0 THEN [matched |-> FALSE, number |-> << >>, unit |-> ""]
       ELSE [matched |-> TRUE,
             number |-> SubSeq(text, 1, n),
             unit |-> IF hits = {} THEN ""
                      ELSE UnitNames[CHOOSE i \in hits : \A j \in hits : i <= j]]

IsDot(c) == c = "."
IsDigit(c) == c \in DOMAIN Digit

\* float(text) accepts digits with at most one point and at least one digit
FloatValid(number) ==
    /\ Len(SelectSeq(number, IsDot)) <= 1
    /\ Len(SelectSeq(number, IsDigit)) >= 1

RECURSIVE DigitsValue(_)
DigitsValue(ds) ==
    IF ds = << >> THEN 0 ELSE 10 * DigitsValue(SubSeq(ds, 1, Len(ds) - 1)) + Digit[ds[Len(ds)]]

RECURSIVE Pow10(_)
Pow10(n) == IF n = 0 THEN 1 ELSE 10 * Pow10(n - 1)

\* float(number) as the fraction num / den
FloatValue(number) ==
    LET dot == PrefixLen(number, DOMAIN Digit)
        decimals == IF dot = Len(number) THEN 0 ELSE Len(number) - dot - 1
    IN [num |-> DigitsValue(SelectSeq(number, IsDigit)), den |-> Pow10(decimals)]

\* parse_duration(duration_str): microseconds, None, or the ValueError of
\* float()
parse_duration(duration_str) ==
    LET cleaned == Replace(Strip(Replace(duration_str, <<"main() is: ">>, << >>)),
                           <<"Â", "µ", "s">>, <<"µ", "s">>)
        match == DurationMatch(cleaned)
        value == FloatValue(match.number)
        unit == IF match.unit = "" THEN "µs" ELSE match.unit
    IN IF ~match.matched THEN Return(None)
       ELSE IF ~FloatValid(match.number) THEN Raise("ValueError")
       ELSE IF unit = "ns" THEN Return(Int2Py(value.num \div (value.den * 1000)))
       ELSE IF unit \in {"µs", "us"} THEN Return(Int2Py(value.num \div value.den))
       ELSE IF unit = "ms" THEN Return(Int2Py((value.num * 1000) \div value.den))
       ELSE IF unit = "s" THEN Return(Int2Py((value.num * 1000000) \div value.den))
       ELSE IF unit = "m" THEN Return(Int2Py((value.num * 60 * 1000000) \div value.den))
       ELSE Return(None)

\* datetime.fromisoformat(timestamp_str.replace("Z", "+00:00")): seconds of
\* the day for the timestamp texts of the model, ValueError for other text
IsoTexts == {"2025-01-01T10:00:01Z", "2025-01-01T10:00:02"}
fromisoformat(text) ==
    IF text = "2025-01-01T10:00:01Z" THEN Return(Int2Py(36001))
    ELSE IF text = "2025-01-01T10:00:02" THEN Return(Int2Py(36002))
    ELSE Raise("ValueError")

(***************************************************************************)
(* SpecLog: one run of analyze_log_file()                                  *)
(***************************************************************************)
MaxLines == 3       \* lines of the log file

\* ord() of the characters of operation names
Ord == [c \in {"a", "b"} |-> IF c = "a" THEN 97 ELSE 98]

RECURSIVE StrLess(_, _)
\* Python's s < t on str: lexicographic by code point
StrLess(s, t) ==
    IF t = << >> THEN FALSE
    ELSE IF s = << >> THEN TRUE
    ELSE IF Ord[Head(s)] # Ord[Head(t)] THEN Ord[Head(s)] < Ord[Head(t)]
    ELSE StrLess(Tail(s), Tail(t))

Operations == {<<"a">>, <<"b">>}

DurationTexts ==
    { <<"1", "0", "0", "m", "s">>,
      <<"5">>,
      <<"1", ".", "2", ".", "3">>,
      <<"x">> }

Part(text, pieces) == [text |-> text, pieces |-> pieces]

\* "<timestamp> - <operation> in <duration>"
LogLine(ts, operation, duration) ==
    << Part(ts, << >>), Part("", <<operation, duration>>) >>

LogLines ==
    {LogLine("2025-01-01T10:00:01Z", o, d) : o \in Operations, d \in DurationTexts}
    \cup { LogLine("yesterday", <<"a">>, <<"5">>),
           << Part("", <<<<"a">>, <<"5">>>>) >>,
           << Part("2025-01-01T10:00:02", << >>), Part("", << <<"a">> >>) >> }

InitLog ==
    /\ lpc = "start"
    /\ file \in [exists : BOOLEAN, lines : SeqsUpTo(LogLines, MaxLines)]
    /\ file.exists \/ file.lines = << >>
    /\ pos = 0
    /\ durations = << >>
    /\ timestamps = << >>
    /\ report = << >>
    /\ table = << >>
    /\ call = NoCall
    /\ InitIdleRun

\* a defaultdict(list) in insertion order: a list of [key, values] entries
Keys(dict) == {dict[i].key : i \in 1..Len(dict)}

DictAppend(dict, key, value) ==
    IF key \in Keys(dict)
    THEN [i \in 1..Len(dict) |->
             IF dict[i].key = key
             THEN [dict[i] EXCEPT !.values = Append(@, value)]
             ELSE dict[i]]
    ELSE Append(dict, [key |-> key, values |-> <<value>>])

\* what one pass of the loop body does with a line (lines 54-77)
LineOutcome(line) ==
    IF Len(line) # 2 THEN [act |-> "skip"]
    ELSE LET timestamp == fromisoformat(line[1].text)
             operation_parts == line[2].pieces
         IN IF timestamp.kind = "raise" THEN [act |-> "skip"]
            ELSE IF Len(operation_parts) # 2 THEN [act |-> "skip"]
            ELSE LET parsed == parse_duration(operation_parts[2])
                 IN IF parsed.kind = "raise" THEN [act |-> "raise"]
                    ELSE IF parsed.val = None THEN [act |-> "skip"]
                    ELSE [act |-> "append",
                          operation |-> operation_parts[1],
                          timestamp |-> timestamp.val.v,
                          duration |-> parsed.val.v]

\* with open(file_path, 'r', encoding='utf-8') as f
OpenFile ==
    /\ lpc = "start"
    /\ lpc' = IF file.exists THEN "reading" ELSE "returned"
    /\ UNCHANGED <<file, pos, durations, timestamps, report, pctVars, runVars>>

\* one pass of "for line in f"; an exception leaves the loop for the
\* "except Exception" handler, which returns
ReadLine ==
    /\ lpc = "reading"
    /\ pos < Len(file.lines)
    /\ LET o == LineOutcome(file.lines[pos + 1])
       IN /\ pos' = pos + 1
          /\ lpc' = IF o.act = "raise" THEN "returned" ELSE "reading"
          /\ IF o.act = "append"
             THEN /\ timestamps' = DictAppend(timestamps, o.operation, o.timestamp)
                  /\ durations' = DictAppend(durations, o.operation, o.duration)
             ELSE UNCHANGED <<timestamps, durations>>
    /\ UNCHANGED <<file, report, pctVars, runVars>>

PairLess(x, y) == x[1] < y[1] \/ (x[1] = y[1] /\ x[2] < y[2])

RECURSIVE InsertPair(_, _)
InsertPair(x, s) ==
    IF s = << >> THEN <<x>>
    ELSE IF PairLess(Head(s), x) THEN <<Head(s)>> \o InsertPair(x, Tail(s))
    ELSE <<x>> \o s

RECURSIVE SortedPairs(_, _)
\* sorted(zip(timestamps[operation], values))
SortedPairs(ts, values) ==
    IF values = << >> \/ ts = << >> THEN << >>
    ELSE InsertPair(<<Head(ts), Head(values)>>, SortedPairs(Tail(ts), Tail(values)))

RECURSIVE SeqSum(_)
SeqSum(s) == IF s = << >> THEN 0 ELSE Head(s) + SeqSum(Tail(s))

\* "{:.2f}" of num / den, in hundredths (round half to even)
Format2(num, den) ==
    LET q == (num * 100) \div den
        r == (num * 100) % den
    IN IF 2 * r > den THEN q + 1
       ELSE IF 2 * r = den THEN q + (q % 2)
       ELSE q

\* format_duration of the mean total / count
format_duration(total, count) ==
    IF total >= 1000 * count
    THEN [hundredths |-> Format2(total, count * 1000), unit |-> "ms"]
    ELSE [hundredths |-> Format2(total, count), unit |-> "µs"]

\* one entry of the averages list (lines 87-95); the mean is total / count.
\* The standard deviation and the 90th percentile follow the mean in the
\* tuple and are not modelled: no two entries share an operation, so the
\* sort never compares them.
Average(operation, ts, values) ==
    LET sorted_pairs == SortedPairs(ts, values)
        sorted_values == [i \in 1..Len(sorted_pairs) |-> sorted_pairs[i][2]]
    IN [operation |-> operation,
        total |-> SeqSum(sorted_values),
        count |-> Len(sorted_values),
        text |-> format_duration(SeqSum(sorted_values), Len(sorted_values))]

\* x < y on the tuples of the averages list: the operation name first
EntryLess(x, y) ==
    \/ StrLess(x.operation, y.operation)
    \/ x.operation = y.operation /\ x.total * y.count < y.total * x.count

RECURSIVE InsertDescending(_, _)
InsertDescending(x, s) ==
    IF s = << >> THEN <<x>>
    ELSE IF EntryLess(x, Head(s)) THEN <<Head(s)>> \o InsertDescending(x, Tail(s))
    ELSE <<x>> \o s

RECURSIVE SortDescending(_)
\* averages.sort(key=lambda x: x, reverse=True)
SortDescending(s) ==
    IF s = << >> THEN << >>
    ELSE InsertDescending(Head(s), SortDescending(Tail(s)))

\* lines 86-111, reached when the loop ends without an exception; the
\* optional bar chart reads the averages and changes nothing
PrintReport ==
    /\ lpc = "reading"
    /\ pos = Len(file.lines)
    /\ LET averages == [i \in 1..Len(durations) |->
                           Average(durations[i].key, timestamps[i].values,
                                   durations[i].values)]
       IN report' = SortDescending(averages)
    /\ lpc' = "done"
    /\ UNCHANGED <<file, pos, durations, timestamps, pctVars, runVars>>

NextLog == OpenFile \/ ReadLine \/ PrintReport

SpecLog == InitLog /\ [][NextLog]_vars

(***************************************************************************)
(* Claims about the duration analyzer (checked under SpecLog)              *)
(***************************************************************************)
LogRunEnded == lpc \in {"done", "returned"}

\* a line that passes every parsing stage: two parts, an ISO timestamp, two
\* pieces, and a duration text that is a number with an optional unit
WellFormed(line) ==
    /\ Len(line) = 2
    /\ line[1].text \in IsoTexts
    /\ Len(line[2].pieces) = 2
    /\ LET d == parse_duration(line[2].pieces[2])
       IN d.kind = "return" /\ d.val # None

GoodLines == SelectSeq(file.lines, WellFormed)

GoodDurations(operation) ==
    LET mine == SelectSeq(GoodLines, LAMBDA l : l[2].pieces[1] = operation)
    IN [i \in 1..Len(mine) |-> parse_duration(mine[i][2].pieces[2]).val.v]

\* C9 (as stated): a line that fails any parsing stage is skipped: the run
\* reads on, prints the report, and reports for every operation the count
\* and the mean of its well-formed lines alone.
C9_BadLinesSkipped ==
    (LogRunEnded /\ file.exists) =>
        /\ lpc = "done"
        /\ {report[i].operation : i \in 1..Len(report)}
              = {o \in Operations : GoodDurations(o) # << >>}
        /\ \A i \in 1..Len(report) :
              /\ report[i].count = Len(GoodDurations(report[i].operation))
              /\ report[i].total = SeqSum(GoodDurations(report[i].operation))

\* C10 (as stated): the report lists the operations by descending mean:
\* an operation printed before another has a mean at least as large.
C10_DescendingMean ==
    lpc = "done" =>
        \A i, j \in 1..Len(report) :
            i < j => report[i].total * report[j].count
                        >= report[j].total * report[i].count

====
